---- MODULE Spec2Model ----
(***************************************************************************)
(* Question generation service: quota allocation over three distributions *)
(* (main/app.py calculate_question_distribution, utils/helpers.py          *)
(* calculate_question_counts), grouping per question type, the shared      *)
(* content summary, the per-type workers and the assembly of the response  *)
(* and of the audit records (main/app.py generate_questions).              *)
(*                                                                         *)
(* Weights are rationals.  A request distribution is a sequence (Python    *)
(* dicts keep insertion order) of [label, w] whose weight is w/weight_den. *)
(* Shares are kept as numerator and denominator, so floor, fractional part *)
(* and rounding are computed exactly.                                      *)
(***************************************************************************)
EXTENDS Integers, Sequences, FiniteSets, TLC

(* ---------------------------- bounds ---------------------------------- *)
MaxN == 4          \* total_questions ranges over 0..MaxN
Den == 4           \* request weights are multiples of 1/Den
Slack == 1         \* a kind distribution sums to Den-Slack, Den or Den+Slack units

(* ---------------------------- labels ---------------------------------- *)
\* QuestionType, DifficultyLevel, BloomsTaxonomy enums
KindLabels == <<"mcq", "fib">>
DifficultyLabels == <<"basic", "intermediate">>
BloomsLabels == <<"remember", "apply", "analyze">>

\* Python None where a text is expected, and a request without objectives
None == "None"
NoObjectives == [type |-> "none", items |-> <<>>]

(* ------------------ texts --------------------------------------------- *)
\* a text is a sequence of segments: the characters lo..hi of the text named
\* src (the chapter, or a literal of the code); a character is the pair of
\* its source and its position there
Segment(src, lo, hi) == [src |-> src, lo |-> lo, hi |-> hi]

\* a literal of n characters
Literal(src, n) == <<Segment(src, 1, n)>>

\* Python None where a text of this form is expected
NoText == <<Segment("None", 0, 0)>>

RECURSIVE TextLen(_)
\* len(text)
TextLen(text) ==
    IF text = <<>> THEN 0
    ELSE Head(text).hi - Head(text).lo + 1 + TextLen(Tail(text))

RECURSIVE Prefix(_, _)
\* the first k characters of a text, all of it when it is shorter
Prefix(text, k) ==
    IF text = <<>> \/ k <= 0 THEN <<>>
    ELSE LET s == Head(text)
             n == s.hi - s.lo + 1
         IN  IF n <= k THEN <<s>> \o Prefix(Tail(text), k - n)
             ELSE <<Segment(s.src, s.lo, s.lo + k - 1)>>

\* text[:k]: a negative k counts from the end
Slice(text, k) ==
    Prefix(text, IF k < 0 THEN (IF TextLen(text) + k > 0
                                THEN TextLen(text) + k ELSE 0)
                 ELSE k)

\* summary_helper.py 123: the default of max_chars
DefaultMaxChars == 100000

\* summary_helper.py 182: the cap of the summary
SummaryCap == 2000

\* summary_helper.py 142: "\n[Content truncated due to size limitations]"
ContentMarker == Literal("[Content truncated due to size limitations]", 44)

\* summary_helper.py 186: "\n[Summary truncated - ...]"
SummaryMarker ==
    Literal("[Summary truncated - full content available for question generation]", 69)

\* summary_helper.py 177, 193: the fixed answers; the error text goes on
\* with the chapter id and the message of the exception
NoContentText == Literal("No content available for the specified chapter.", 47)
ErrorText == Literal("Error retrieving content for chapter", 36)

\* the chapter as the index holds it, chars characters long
ChapterText(chars) == IF chars = 0 THEN <<>> ELSE Literal("chapter", chars)

\* summary_helper.py 86-121 execute_search: the concatenated chunks, or
\* None when the search raised (caught and printed there)
execute_search(search) ==
    IF search.kind = "text" THEN ChapterText(search.chars) ELSE NoText

(* ---------------------------- helpers --------------------------------- *)
RECURSIVE SumSeq(_)
SumSeq(s) == IF s = <<>> THEN 0 ELSE Head(s) + SumSeq(Tail(s))

RECURSIVE Flatten(_)
Flatten(ss) == IF ss = <<>> THEN <<>> ELSE Head(ss) \o Flatten(Tail(ss))

Weights(dist) == [i \in 1..Len(dist) |-> dist[i].w]
Counts(items) == [i \in 1..Len(items) |-> items[i].count]
TotalWeight(dist) == SumSeq(Weights(dist))

\* sequence of the distinct values of s, in order of first appearance
\* (the order in which a dict gains its keys)
RECURSIVE FirstSeen(_)
FirstSeen(s) ==
    IF s = <<>> THEN <<>>
    ELSE LET init == FirstSeen(SubSeq(s, 1, Len(s) - 1))
             last == s[Len(s)]
         IN IF \E i \in 1..Len(init) : init[i] = last THEN init
            ELSE Append(init, last)

\* "_".join(parts) on token sequences
RECURSIVE Join(_)
Join(parts) ==
    IF parts = <<>> THEN <<>>
    ELSE IF Len(parts) = 1 THEN parts[1]
    ELSE parts[1] \o <<"_">> \o Join(Tail(parts))

(* ------------------ allocator: main/app.py 113-161 -------------------- *)
\* nested loops over the three dicts: one entry per combination, in
\* iteration order, with exact_count = exact_num / exact_den
FractionalDistribution(total_questions, qd, dd, bd, qden, dden, bden) ==
    LET nd == Len(dd)
        nb == Len(bd)
        exact_den == qden * dden * bden
    IN [i \in 1..(Len(qd) * nd * nb) |->
          LET q == qd[((i - 1) \div (nd * nb)) + 1]
              d == dd[(((i - 1) \div nb) % nd) + 1]
              b == bd[((i - 1) % nb) + 1]
              exact_num == total_questions * q.w * d.w * b.w
          IN [question_type |-> q.label, difficulty |-> d.label,
              blooms_level |-> b.label,
              exact_num |-> exact_num, exact_den |-> exact_den,
              count |-> exact_num \div exact_den]]

\* numerator of exact_count - count
FracPart(item) == item.exact_num % item.exact_den

\* position (from 0) of entry i in sorted(..., reverse=True): the sort is
\* stable, so entries with equal fractional parts keep dict order
SortedRank(fd, i) ==
    Cardinality({j \in 1..Len(fd) :
        \/ FracPart(fd[j]) > FracPart(fd[i])
        \/ (FracPart(fd[j]) = FracPart(fd[i]) /\ j < i)})

Remainder(total_questions, fd) == total_questions - SumSeq(Counts(fd))

\* for i in range(remainder): if i < len(sorted_keys): count += 1
DistributeRemainder(total_questions, fd) ==
    LET remainder == Remainder(total_questions, fd)
    IN [i \in 1..Len(fd) |->
          [question_type |-> fd[i].question_type,
           difficulty |-> fd[i].difficulty,
           blooms_level |-> fd[i].blooms_level,
           count |-> fd[i].count
                     + (IF SortedRank(fd, i) < remainder THEN 1 ELSE 0)]]

(* ------------------ binary64 arithmetic of the allocator --------------- *)
\* A Python float is [m, e] with the value m * 2^e: m is a 53-bit integer
\* kept as five limbs of 13 bits, least significant first, and is either
\* 0 or normalized (2^52 <= m < 2^53, so m[5] = 1).
Limb == 8192
HalfLimb == 4096
ZeroLimbs == <<0, 0, 0, 0, 0>>
F64Zero == [m |-> ZeroLimbs, e |-> 0]

\* carry propagation over column sums; the last carry is a limb of its own
RECURSIVE Carry(_, _)
Carry(cols, c) ==
    IF cols = <<>> THEN <<c>>
    ELSE <<(Head(cols) + c) % Limb>>
         \o Carry(Tail(cols), (Head(cols) + c) \div Limb)

BigMul(a, b) ==
    Carry([k \in 1..(Len(a) + Len(b) - 1) |->
             SumSeq([t \in 1..Len(a) |->
                       IF (k + 1 - t) \in 1..Len(b)
                       THEN a[t] * b[k + 1 - t] ELSE 0])], 0)

BigDouble(m) == SubSeq(Carry([i \in 1..Len(m) |-> 2 * m[i]], 0), 1, Len(m))

BigHalve(m) ==
    [i \in 1..Len(m) |->
        (m[i] \div 2) + (IF i < Len(m) THEN (m[i + 1] % 2) * HalfLimb ELSE 0)]

BigInc(m) == SubSeq(Carry([i \in 1..Len(m) |-> m[i] + (IF i = 1 THEN 1 ELSE 0)], 0),
                    1, Len(m))

\* most significant limb first
RECURSIVE BigLess(_, _)
BigLess(a, b) ==
    IF a = <<>> THEN FALSE
    ELSE LET n == Len(a)
         IN IF a[n] # b[n] THEN a[n] < b[n]
            ELSE BigLess(SubSeq(a, 1, n - 1), SubSeq(b, 1, n - 1))

\* shift a non-zero m left until it is normalized
RECURSIVE Normalize(_, _)
Normalize(m, e) ==
    IF m = ZeroLimbs THEN F64Zero
    ELSE IF m[5] >= 1 THEN [m |-> m, e |-> e]
    ELSE Normalize(BigDouble(m), e - 1)

\* round to nearest, ties to even: q is the (at most 53-bit) quotient,
\* above tells whether the dropped part exceeds half a unit, tie whether
\* it equals it; a carry out of 53 bits renormalizes
RoundNearestEven(q, e, above, tie) ==
    LET up == above \/ (tie /\ q[1] % 2 = 1)
        r == IF up THEN BigInc(q) ELSE q
    IN IF r[5] >= 2 THEN [m |-> BigHalve(r), e |-> e + 1]
       ELSE [m |-> r, e |-> e]

\* float(n) for a small non-negative int
IntToF64(n) == Normalize(<<n, 0, 0, 0, 0>>, 0)

\* short division of limbs (most significant last) by a small divisor
RECURSIVE ShortDiv(_, _, _)
ShortDiv(limbs, d, rem) ==
    IF limbs = <<>> THEN [q |-> <<>>, r |-> rem]
    ELSE LET n == Len(limbs)
             cur == rem * Limb + limbs[n]
             rest == ShortDiv(SubSeq(limbs, 1, n - 1), d, cur % d)
         IN [q |-> Append(rest.q, cur \div d), r |-> rest.r]

\* smallest s with w * 2^s >= den
RECURSIVE LeadShift(_, _)
LeadShift(w, den) == IF w >= den THEN 0 ELSE 1 + LeadShift(2 * w, den)

RECURSIVE Pow2(_)
Pow2(k) == IF k = 0 THEN 1 ELSE 2 * Pow2(k - 1)

\* the float nearest to w/den (the value json gives the literal),
\* for 0 <= w < 2 * den
DecToF64(w, den) ==
    IF w = 0 THEN F64Zero
    ELSE LET s == LeadShift(w, den)
             d == ShortDiv(<<0, 0, 0, 0, w * Pow2(s)>>, den, 0)
         IN RoundNearestEven(d.q, 0 - 52 - s, 2 * d.r > den, 2 * d.r = den)

\* a * b of two floats: the 106-bit product rounded to 53 bits
F64Mul(a, b) ==
    IF a.m = ZeroLimbs \/ b.m = ZeroLimbs THEN F64Zero
    ELSE LET p == BigMul(a.m, b.m)
             low == SubSeq(p, 1, 4)
             high == SubSeq(p, 5, 9)
             low_zero == low = <<0, 0, 0, 0>>
             low_rest_zero == SubSeq(low, 1, 3) = <<0, 0, 0>>
         IN IF high[5] = 1
            THEN RoundNearestEven(high, a.e + b.e + 52,
                     low[4] > HalfLimb \/ (low[4] = HalfLimb /\ ~low_rest_zero),
                     low[4] = HalfLimb /\ low_rest_zero)
            ELSE RoundNearestEven(BigHalve(high), a.e + b.e + 53,
                     high[1] % 2 = 1 /\ ~low_zero,
                     high[1] % 2 = 1 /\ low_zero)

\* m \div 2^k
BigShiftRight(m, k) ==
    LET q == k \div 13
        r == k % 13
        at(i) == IF i \in 1..Len(m) THEN m[i] ELSE 0
    IN [i \in 1..Len(m) |->
          (at(i + q) \div Pow2(r)) + (at(i + q + 1) % Pow2(r)) * Pow2(13 - r)]

\* int(x) of a float below 2^26 that is not negative
F64Floor(x) ==
    IF x.m = ZeroLimbs \/ x.e <= 0 - 53 THEN 0
    ELSE LET s == BigShiftRight(x.m, 0 - x.e)
         IN s[1] + Limb * s[2]

\* the bits of m below bit k
LowBits(m, k) ==
    [i \in 1..Len(m) |->
        IF 13 * i <= k THEN m[i]
        ELSE IF 13 * (i - 1) >= k THEN 0
        ELSE m[i] % Pow2(k - 13 * (i - 1))]

\* x - int(x): the subtraction is exact
F64Frac(x) ==
    IF x.m = ZeroLimbs THEN F64Zero
    ELSE IF x.e <= 0 - 53 THEN x
    ELSE Normalize(LowBits(x.m, 0 - x.e), x.e)

\* a < b for floats that are not negative
F64Less(a, b) ==
    IF b.m = ZeroLimbs THEN FALSE
    ELSE IF a.m = ZeroLimbs THEN TRUE
    ELSE IF a.e # b.e THEN a.e < b.e
    ELSE BigLess(a.m, b.m)

\* main/app.py 121-132 in binary64: exact_count = ((N * q) * d) * b, each
\* product rounded; count = int(exact_count); frac is the sort key
FractionalDistributionF64(total_questions, qd, dd, bd, den) ==
    LET nd == Len(dd)
        nb == Len(bd)
    IN [i \in 1..(Len(qd) * nd * nb) |->
          LET q == qd[((i - 1) \div (nd * nb)) + 1]
              d == dd[(((i - 1) \div nb) % nd) + 1]
              b == bd[((i - 1) % nb) + 1]
              exact_count ==
                  F64Mul(F64Mul(F64Mul(IntToF64(total_questions),
                                       DecToF64(q.w, den)),
                                DecToF64(d.w, den)),
                         DecToF64(b.w, den))
          IN [question_type |-> q.label, difficulty |-> d.label,
              blooms_level |-> b.label,
              frac |-> F64Frac(exact_count),
              count |-> F64Floor(exact_count)]]

\* variant: the remainder goes to the first entries in dict order
SortedRankF64_DictOrder(fd, i) == i - 1

\* position (from 0) of entry i in sorted(..., reverse=True), stable
SortedRankF64(fd, i) ==
    Cardinality({j \in 1..Len(fd) :
        \/ F64Less(fd[i].frac, fd[j].frac)
        \/ (fd[j].frac = fd[i].frac /\ j < i)})

DistributeRemainderF64(total_questions, fd) ==
    LET remainder == Remainder(total_questions, fd)
    IN [i \in 1..Len(fd) |->
          [question_type |-> fd[i].question_type,
           difficulty |-> fd[i].difficulty,
           blooms_level |-> fd[i].blooms_level,
           count |-> fd[i].count
                     + (IF SortedRankF64(fd, i) < remainder THEN 1 ELSE 0)]]

\* weights in tenths are no binary fractions: their products are rounded.
\* The products of weights in quarters and of small totals are exact, and
\* are computed as rationals.
RoundedProducts(den) == den = 10

\* variant: entries with a count of 0 are kept
PositiveCount_KeepsZero(item) == item.count >= 0

\* if item['count'] > 0
PositiveCount(item) == item.count > 0

calculate_question_distribution(total_questions, qd, dd, bd, den) ==
    IF RoundedProducts(den)
    THEN SelectSeq(DistributeRemainderF64(total_questions,
                       FractionalDistributionF64(total_questions, qd, dd, bd,
                                                 den)),
                   PositiveCount)
    ELSE SelectSeq(DistributeRemainder(total_questions,
                       FractionalDistribution(total_questions, qd, dd, bd,
                                              den, den, den)),
                   PositiveCount)

(* ------------------ helpers.py 142-229 -------------------------------- *)
AbsInt(x) == IF x < 0 THEN 0 - x ELSE x

\* abs(total - 1.0) > 0.01 for some distribution => False
validate_distributions(qd, dd, bd, den) ==
    \A dist \in {qd, dd, bd} :
        AbsInt(TotalWeight(dist) - den) * 100 <= den

\* v/total, or 1/num_items when the total is 0: [dist, den]
normalize_distribution(dist) ==
    IF TotalWeight(dist) = 0
    THEN [dist |-> [i \in 1..Len(dist) |-> [label |-> dist[i].label, w |-> 1]],
          den |-> Len(dist)]
    ELSE [dist |-> dist, den |-> TotalWeight(dist)]

calculate_question_counts(total_questions, qd, dd, bd, den) ==
    LET valid == validate_distributions(qd, dd, bd, den)
        nq == IF valid THEN [dist |-> qd, den |-> den]
              ELSE normalize_distribution(qd)
        nd == IF valid THEN [dist |-> dd, den |-> den]
              ELSE normalize_distribution(dd)
        nb == IF valid THEN [dist |-> bd, den |-> den]
              ELSE normalize_distribution(bd)
    IN SelectSeq(DistributeRemainder(total_questions,
                     FractionalDistribution(total_questions,
                         nq.dist, nd.dist, nb.dist, nq.den, nd.den, nb.den)),
                 PositiveCount)

(* ------------------ grouper: main/app.py 328-364 ---------------------- *)
QuestionTypes(question_dist) ==
    FirstSeen([i \in 1..Len(question_dist) |-> question_dist[i].question_type])

ConfigsOf(question_dist, q_type) ==
    LET OfType(config) == config.question_type = q_type
    IN SelectSeq(question_dist, OfType)

\* type_groups: one [question_type, configs] per type, in dict order
TypeGroups(question_dist) ==
    LET types == QuestionTypes(question_dist)
    IN [i \in 1..Len(types) |->
          [question_type |-> types[i],
           configs |-> ConfigsOf(question_dist, types[i])]]

TotalForType(configs) == SumSeq(Counts(configs))

\* difficulty_dist_for_type: label -> sum of count/total_for_type, kept as
\* [label, w] over the denominator total_for_type
DifficultyDistForType(configs) ==
    LET labels == FirstSeen([i \in 1..Len(configs) |-> configs[i].difficulty])
    IN [k \in 1..Len(labels) |->
          [label |-> labels[k],
           w |-> SumSeq([i \in 1..Len(configs) |->
                    IF configs[i].difficulty = labels[k]
                    THEN configs[i].count ELSE 0])]]

BloomsDistForType(configs) ==
    LET labels == FirstSeen([i \in 1..Len(configs) |-> configs[i].blooms_level])
    IN [k \in 1..Len(labels) |->
          [label |-> labels[k],
           w |-> SumSeq([i \in 1..Len(configs) |->
                    IF configs[i].blooms_level = labels[k]
                    THEN configs[i].count ELSE 0])]]

(* ------------------ synthesis: utils_fib.py 24-36, 259-332 ------------ *)
\* Python round(): to nearest, ties to even
RoundHalfEven(num, den) ==
    LET q == num \div den
        r2 == 2 * (num % den)
    IN IF r2 < den THEN q
       ELSE IF r2 > den THEN q + 1
       ELSE IF q % 2 = 0 THEN q ELSE q + 1

\* count = int(round(num_questions * diff_ratio * blooms_ratio)), entries
\* with count > 0 only
RoundedBreakdown(num_questions, dd, bd, den) ==
    LET nb == Len(bd)
        all == [i \in 1..(Len(dd) * nb) |->
                  LET d == dd[((i - 1) \div nb) + 1]
                      b == bd[((i - 1) % nb) + 1]
                  IN [difficulty |-> d.label, blooms_level |-> b.label,
                      count |-> RoundHalfEven(num_questions * d.w * b.w,
                                              den * den)]]
    IN SelectSeq(all, PositiveCount)

\* max(keys, key=count): the first entry holding the largest count
LargestKey(breakdown) ==
    CHOOSE i \in 1..Len(breakdown) :
        /\ \A j \in 1..Len(breakdown) : breakdown[j].count <= breakdown[i].count
        /\ \A j \in 1..(i - 1) : breakdown[j].count < breakdown[i].count

\* question_breakdown after the adjustment; max() of no keys raises
QuestionBreakdown(num_questions, dd, bd, den) ==
    LET rounded == RoundedBreakdown(num_questions, dd, bd, den)
        total_calculated == SumSeq(Counts(rounded))
    IN IF total_calculated = num_questions
       THEN [raised |-> FALSE, breakdown |-> rounded]
       ELSE IF rounded = <<>>
       THEN [raised |-> TRUE, breakdown |-> <<>>]
       ELSE [raised |-> FALSE,
             breakdown |->
                [rounded EXCEPT ![LargestKey(rounded)].count =
                                    @ + (num_questions - total_calculated)]]

\* variant: each combination enters the sequence once
create_question_sequence_OncePerKey(question_breakdown) ==
    [i \in 1..Len(question_breakdown) |->
        [difficulty |-> question_breakdown[i].difficulty,
         blooms_level |-> question_breakdown[i].blooms_level]]

\* each combination enters the sequence count times, in dict order
create_question_sequence(question_breakdown) ==
    Flatten([i \in 1..Len(question_breakdown) |->
               [j \in 1..question_breakdown[i].count |->
                    [difficulty |-> question_breakdown[i].difficulty,
                     blooms_level |-> question_breakdown[i].blooms_level]]])

(* ------------------ file names ---------------------------------------- *)
\* "_".join(f"{label}{int(prop*100)}" ...), prop = w/den, as tokens
format_distribution_string(dist, den) ==
    Join([i \in 1..Len(dist) |->
            <<dist[i].label, ToString((dist[i].w * 100) \div den)>>])

\* learning_objectives is None, a string (its tokens) or a list of strings
Truthy(learning_objectives) ==
    learning_objectives.type # "none" /\ learning_objectives.items # <<>>

\* "lo" + ("_".join(list) or str(value))
ObjectiveTag(learning_objectives) ==
    <<"lo">> \o (IF learning_objectives.type = "list"
                 THEN Join([i \in 1..Len(learning_objectives.items) |->
                              <<learning_objectives.items[i]>>])
                 ELSE learning_objectives.items)

\* variant: the tag is appended without looking at the metadata keys
FilenameParts_NoKeyCheck(chapter_id, learning_objectives, lo_in_keys, dd, bd, den) ==
    <<chapter_id, format_distribution_string(dd, den),
      format_distribution_string(bd, den)>>
    \o (IF Truthy(learning_objectives)
        THEN <<ObjectiveTag(learning_objectives)>> ELSE <<>>)

\* filename_parts of both the worker and the generators
FilenameParts(chapter_id, learning_objectives, lo_in_keys, dd, bd, den) ==
    <<chapter_id, format_distribution_string(dd, den),
      format_distribution_string(bd, den)>>
    \o (IF Truthy(learning_objectives) /\ lo_in_keys
        THEN <<ObjectiveTag(learning_objectives)>> ELSE <<>>)

Suffix(question_type) ==
    CASE question_type = "mcq" -> <<"_mcqs.json">>
      [] question_type = "fib" -> <<"_fib.json">>
      [] question_type = "tf" -> <<"_tf.json">>

\* main/app.py 220-234: the name the worker opens
WorkerFileName(question_type, chapter_id, learning_objectives, lo_in_keys, dd, bd, den) ==
    Join(FilenameParts(chapter_id, learning_objectives, lo_in_keys, dd, bd, den))
    \o Suffix(question_type)

\* variant: the generator appends the tag without looking at the keys
FibFileName_NoKeyCheck(chapter_id, learning_objectives, lo_in_keys, dd, bd, den) ==
    Join(FilenameParts_NoKeyCheck(chapter_id, learning_objectives, lo_in_keys,
                                  dd, bd, den))
    \o <<"_fib.json">>

\* utils_fib.py 297-306: the name generate_fill_in_blank writes
FibFileName(chapter_id, learning_objectives, lo_in_keys, dd, bd, den) ==
    Join(FilenameParts(chapter_id, learning_objectives, lo_in_keys, dd, bd, den))
    \o <<"_fib.json">>

(* ------------------ generators ---------------------------------------- *)
\* variant: the generator retrieves the chapter whatever it is handed
FetchesOwnContent_Always(summary) == TRUE

\* utils_fib.py 248-257: the generator retrieves the chapter itself only
\* when it is handed no summary
FetchesOwnContent(summary) == summary = NoText

\* utils_fib.py 312-327: one item per entry of the sequence, at most
\* num_questions of them; the position stands for the item's uuid4
FibItems(num_questions, question_breakdown) ==
    LET question_sequence == create_question_sequence(question_breakdown)
        n == IF num_questions < Len(question_sequence)
             THEN num_questions ELSE Len(question_sequence)
    IN [i \in 1..n |->
          [question_id |-> i,
           question_type |-> "fib",
           difficulty |-> question_sequence[i].difficulty,
           blooms_level |-> question_sequence[i].blooms_level]]

\* the exception a generator ends with: max() of an empty breakdown, or
\* the environment's (the file cannot be written)
GeneratorError(breakdown_raised, io_fails) ==
    IF breakdown_raised THEN "max() arg is an empty sequence"
    ELSE IF io_fails THEN "OSError"
    ELSE ""

\* utils_fib.py 214-342: [raised, error, file_name, items]; io_fails is an
\* exception of the environment (the file cannot be written)
generate_fill_in_blank(chapter_id, learning_objectives, lo_in_keys, num_questions, dd, bd, den, io_fails) ==
    LET qb == QuestionBreakdown(num_questions, dd, bd, den)
    IN IF qb.raised \/ io_fails
       THEN [raised |-> TRUE, error |-> GeneratorError(qb.raised, io_fails),
             file_name |-> <<>>, items |-> <<>>]
       ELSE [raised |-> FALSE, error |-> "",
             file_name |-> FibFileName(chapter_id, learning_objectives,
                                       lo_in_keys, dd, bd, den),
             items |-> FibItems(num_questions, qb.breakdown)]

\* utils_mcq.py generate_mcqs: same contract as the fill-in-blank
\* generator, items typed mcq and written to the _mcqs.json name
generate_mcqs(chapter_id, learning_objectives, lo_in_keys, num_questions, dd, bd, den, io_fails) ==
    LET qb == QuestionBreakdown(num_questions, dd, bd, den)
        items == FibItems(num_questions, qb.breakdown)
    IN IF qb.raised \/ io_fails
       THEN [raised |-> TRUE, error |-> GeneratorError(qb.raised, io_fails),
             file_name |-> <<>>, items |-> <<>>]
       ELSE [raised |-> FALSE, error |-> "",
             file_name |-> Join(FilenameParts(chapter_id, learning_objectives,
                                              lo_in_keys, dd, bd, den))
                           \o <<"_mcqs.json">>,
             items |-> [i \in 1..Len(items) |->
                          [items[i] EXCEPT !.question_type = "mcq"]]]

\* utils_tf.py generate_true_false: same contract as the fill-in-blank
\* generator, items typed tf and written to the _tf.json name
generate_true_false(chapter_id, learning_objectives, lo_in_keys, num_questions, dd, bd, den, io_fails) ==
    LET qb == QuestionBreakdown(num_questions, dd, bd, den)
        items == FibItems(num_questions, qb.breakdown)
    IN IF qb.raised \/ io_fails
       THEN [raised |-> TRUE, error |-> GeneratorError(qb.raised, io_fails),
             file_name |-> <<>>, items |-> <<>>]
       ELSE [raised |-> FALSE, error |-> "",
             file_name |-> Join(FilenameParts(chapter_id, learning_objectives,
                                              lo_in_keys, dd, bd, den))
                           \o <<"_tf.json">>,
             items |-> [i \in 1..Len(items) |->
                          [items[i] EXCEPT !.question_type = "tf"]]]

(* ------------------ result processing: main/app.py 388-399 ------------ *)
\* variant: a failed result is skipped instead of raising
RECURSIVE ProcessResults_SkipFailed(_, _, _)
ProcessResults_SkipFailed(results, files_acc, data_acc) ==
    IF results = <<>>
    THEN [raised |-> FALSE, error_message |-> <<>>,
          files_generated |-> files_acc, all_question_data |-> data_acc]
    ELSE LET result == Head(results)
         IN IF result.error # ""
            THEN ProcessResults_SkipFailed(Tail(results), files_acc, data_acc)
            ELSE ProcessResults_SkipFailed(Tail(results),
                     Append(files_acc, result.file_name),
                     Append(data_acc,
                            [question_type |-> result.question_type,
                             question_data |-> result.question_data]))

\* variant: the message names the type of the last result
ProcessResults_NamesLast(results, files_acc, data_acc) ==
    LET r == ProcessResults_SkipFailed(results, files_acc, data_acc)
        failed == {i \in 1..Len(results) : results[i].error # ""}
        first == CHOOSE i \in failed : \A j \in failed : i <= j
    IN IF failed = {} THEN r
       ELSE [raised |-> TRUE,
             error_message |-> <<"Error in", results[Len(results)].question_type,
                                 results[first].error>>,
             files_generated |-> files_acc, all_question_data |-> data_acc]

\* the loop over results: a failed result raises and leaves
\* files_generated and all_question_data as filled so far
RECURSIVE ProcessResults(_, _, _)
ProcessResults(results, files_acc, data_acc) ==
    IF results = <<>>
    THEN [raised |-> FALSE, error_message |-> <<>>,
          files_generated |-> files_acc, all_question_data |-> data_acc]
    ELSE LET result == Head(results)
         IN IF result.error # ""
            THEN [raised |-> TRUE,
                  error_message |-> <<"Error in", result.question_type,
                                      result.error>>,
                  files_generated |-> files_acc,
                  all_question_data |-> data_acc]
            ELSE ProcessResults(Tail(results),
                     Append(files_acc, result.file_name),
                     Append(data_acc,
                            [question_type |-> result.question_type,
                             question_data |-> result.question_data]))

(* ------------------ domains of the requests --------------------------- *)
Range(s) == {s[i] : i \in 1..Len(s)}

\* the distributions over exactly the labels `labels`, in that order, with
\* weights of at least one unit and a total in `totals`
DistsOn(labels, totals) ==
    {[i \in 1..Len(labels) |-> [label |-> labels[i], w |-> ws[i]]] :
        ws \in {v \in [1..Len(labels) -> 1..(Den + Slack)] : SumSeq(v) \in totals}}

\* kind distributions: any selection of distinct kinds in any order, the
\* weights summing to 1.0 or missing it by Slack units either way
KindDists ==
    UNION {DistsOn(labels, {Den - Slack, Den, Den + Slack}) :
             labels \in {s \in UNION {[1..n -> Range(KindLabels)] :
                                        n \in 1..Len(KindLabels)} :
                            \A i, j \in 1..Len(s) : i < j => s[i] # s[j]}}

\* difficulty and level distributions: the first labels of the enum, the
\* weights summing to 1.0
PrefixDists(labels) ==
    UNION {DistsOn(SubSeq(labels, 1, n), {Den}) : n \in 1..Len(labels)}

Requests ==
    [total_questions : 0..MaxN,
     question_type_distribution : KindDists,
     difficulty_distribution : PrefixDists(DifficultyLabels),
     blooms_taxonomy_distribution : PrefixDists(BloomsLabels),
     chapter_id : {<<"ch01">>},
     learning_objectives : {NoObjectives}]

(* ------------------ state --------------------------------------------- *)
VARIABLES
    request,            \* the QuestionRequest
    weight_den,         \* the unit of the request's weights is 1/weight_den
    dynamo,             \* tables: "absent" (None), "up", "failing" (put_item raises)
    lo_in_keys,         \* 'learning_objectives' in metadata_keys
    search_result,      \* what the chapter search does in this request
    max_chars,          \* the cap retrieve_chapter_chunks is called with
    concurrent,         \* the process serves a second request with the same
                        \* chapter id and distributions at the same time
    pc,                 \* position of generate_questions
    fetch_calls,        \* calls of retrieve_chapter_chunks in this request
    fetch_outcome,      \* what the retrieval did: "none", "content", "empty", "raised"
    content_summary,
    question_dist,
    type_groups,
    workers,            \* one per future, in submission order
    files,              \* the working directory: {[file_name, content]}
    files_generated,
    all_question_data,
    status,
    error_message,
    outcome,            \* what the caller receives
    audit               \* items put into the DynamoDB tables, in order

vars == <<request, weight_den, dynamo, lo_in_keys, search_result, max_chars,
          concurrent,
          pc, fetch_calls,
          fetch_outcome, content_summary, question_dist, type_groups, workers,
          files, files_generated, all_question_data, status, error_message,
          outcome, audit>>

env == <<request, weight_den, dynamo, lo_in_keys, search_result, max_chars,
         concurrent>>

\* what the search does: it raises on the way, it yields None, or it yields
\* a chapter of chars characters
Search(kind, chars) == [kind |-> kind, chars |-> chars]

\* the three behaviours the handler tells apart, under the default cap
InitStore ==
    /\ search_result \in {Search("raised", 0), Search("text", 0),
                          Search("text", 3)}
    /\ max_chars = DefaultMaxChars

\* a short chapter found under the default cap
InitChapter ==
    /\ search_result = Search("text", 3)
    /\ max_chars = DefaultMaxChars

NoOutcome == [kind |-> "none", files_generated |-> <<>>, data |-> <<>>,
              detail |-> <<>>]

InitLocals ==
    /\ pc = "start"
    /\ fetch_calls = 0
    /\ fetch_outcome = "none"
    /\ content_summary = NoText
    /\ question_dist = <<>>
    /\ type_groups = <<>>
    /\ workers = <<>>
    /\ files = {}
    /\ files_generated = <<>>
    /\ all_question_data = <<>>
    /\ status = "success"
    /\ error_message = <<>>
    /\ outcome = NoOutcome
    /\ audit = <<>>

Init ==
    /\ request \in Requests
    /\ weight_den = Den
    /\ dynamo \in {"absent", "up", "failing"}
    /\ lo_in_keys = TRUE
    /\ InitChapter
    /\ concurrent = FALSE
    /\ InitLocals

\* put_item on a table: nothing is stored when the tables are None or the
\* put raises (both are caught and printed)
PutItem(log, item) == IF dynamo = "up" THEN Append(log, item) ELSE log

\* variant: the exception of a failed put leaves the handler
AuditErrorEscapes_Reraised(put_raises) == put_raises

\* main/app.py 292-296, 469-470, 502-503: every audit call sits in
\* try / except Exception: print(...), so a failed put is never re-raised
AuditErrorEscapes(put_raises) == FALSE

\* what the caller receives when an exception leaves the handler
InternalError == [kind |-> "error", files_generated |-> <<>>, data |-> <<>>,
                  detail |-> <<"Internal Server Error">>]

AuditItem(table, event, st, files_, data_, msg) ==
    [table |-> table, event |-> event, status |-> st,
     files_generated |-> files_, response_data |-> data_,
     error_message |-> msg]

(* ------------------ shared summary: summary_helper.py 123-193 --------- *)
\* variant: the cut text carries no marker
retrieve_chapter_chunks_NoMarker(search, cap) ==
    LET chapter_content == execute_search(search)
    IN  IF chapter_content # NoText /\ chapter_content # <<>>
           /\ TextLen(chapter_content) > cap
        THEN Slice(chapter_content, cap)
        ELSE chapter_content

\* summary_helper.py 123-147 retrieve_chapter_chunks, after the query body
\* is built: a text longer than max_chars is cut and marked
retrieve_chapter_chunks(search, cap) ==
    LET chapter_content == execute_search(search)
    IN  IF chapter_content # NoText /\ chapter_content # <<>>
           /\ TextLen(chapter_content) > cap
        THEN Slice(chapter_content, cap) \o ContentMarker
        ELSE chapter_content

\* summary_helper.py 149-193 generate_content_summary_sync: it returns a
\* text in every case; search.kind = "raised" is an exception on the way to
\* the search (the session, the query body), caught at 191
generate_content_summary_sync(search, cap) ==
    IF search.kind = "raised" THEN ErrorText
    ELSE LET chapter_content == retrieve_chapter_chunks(search, cap)
         IN  IF chapter_content = NoText \/ chapter_content = <<>>
             THEN NoContentText
             ELSE LET summary_length ==
                          IF TextLen(chapter_content) < SummaryCap
                          THEN TextLen(chapter_content) ELSE SummaryCap
                      summary == Slice(chapter_content, summary_length)
                  IN  IF TextLen(chapter_content) > summary_length
                      THEN summary \o SummaryMarker
                      ELSE summary

\* what the retrieval did, as the handler's log shows it
FetchOutcome(search, cap) ==
    CASE search.kind = "raised" -> "raised"
      [] search.kind # "raised"
         /\ retrieve_chapter_chunks(search, cap) \in {NoText, <<>>} -> "empty"
      [] OTHER -> "content"

\* main/app.py 280-316: log_conversation, then the one summary call
FetchSummary ==
    /\ pc = "start"
    /\ audit' = PutItem(audit, AuditItem("conversation", "", "PROCESSING",
                                         <<>>, <<>>, <<>>))
    /\ IF AuditErrorEscapes(dynamo = "failing")
       THEN /\ pc' = "done"
            /\ outcome' = InternalError
            /\ UNCHANGED <<fetch_outcome, content_summary, fetch_calls>>
       ELSE /\ fetch_outcome' = FetchOutcome(search_result, max_chars)
            /\ content_summary' =
                   generate_content_summary_sync(search_result, max_chars)
            /\ fetch_calls' = fetch_calls + 1
            /\ pc' = "allocate"
            /\ outcome' = outcome
    /\ UNCHANGED <<env, question_dist, type_groups, workers, files,
                   files_generated, all_question_data, status, error_message>>

\* main/app.py 318-334: allocation and grouping by question type
Allocate ==
    /\ pc = "allocate"
    /\ question_dist' = calculate_question_distribution(
                            request.total_questions,
                            request.question_type_distribution,
                            request.difficulty_distribution,
                            request.blooms_taxonomy_distribution,
                            weight_den)
    /\ type_groups' = TypeGroups(question_dist')
    /\ pc' = "submit"
    /\ UNCHANGED <<env, fetch_calls, fetch_outcome, content_summary, workers,
                   files, files_generated, all_question_data, status,
                   error_message, outcome, audit>>

\* variant: the task is submitted without the shared summary
Submit_OwnSummary ==
    /\ pc = "submit"
    /\ Len(workers) < Len(type_groups)
    /\ LET group == type_groups[Len(workers) + 1]
       IN workers' = Append(workers,
            [question_type |-> group.question_type,
             configs |-> group.configs,
             content_summary |-> NoText,
             difficulty_distribution |-> DifficultyDistForType(group.configs),
             blooms_distribution |-> BloomsDistForType(group.configs),
             st |-> "submitted",
             file_name |-> <<>>, question_data |-> <<>>, error |-> "",
             completed |-> 0, calls |-> 0])
    /\ UNCHANGED <<env, pc, fetch_calls, fetch_outcome, content_summary,
                   question_dist, type_groups, files, files_generated,
                   all_question_data, status, error_message, outcome, audit>>

\* main/app.py 347-379: the next type's sub-distributions are built and
\* its task is handed to the thread pool
Submit ==
    /\ pc = "submit"
    /\ Len(workers) < Len(type_groups)
    /\ LET group == type_groups[Len(workers) + 1]
       IN workers' = Append(workers,
            [question_type |-> group.question_type,
             configs |-> group.configs,
             content_summary |-> content_summary,
             difficulty_distribution |-> DifficultyDistForType(group.configs),
             blooms_distribution |-> BloomsDistForType(group.configs),
             st |-> "submitted",
             file_name |-> <<>>, question_data |-> <<>>, error |-> "",
             completed |-> 0, calls |-> 0])
    /\ UNCHANGED <<env, pc, fetch_calls, fetch_outcome, content_summary,
                   question_dist, type_groups, files, files_generated,
                   all_question_data, status, error_message, outcome, audit>>

\* main/app.py 185, 196, 207: the types the worker has a branch for
KnownKind(question_type) == question_type \in {"mcq", "fib", "tf"}

\* no branch matches: nothing is called, written or raised
NoGenerator == [raised |-> FALSE, error |-> "", file_name |-> <<>>,
                items |-> <<>>]

\* variant: a type without a branch ends without an error
UnknownKindError_Silent(question_type) == ""

\* main/app.py 229-238, 243-248: for a type without a branch file_name is
\* never assigned, open(file_name) raises UnboundLocalError inside the try
\* block and str(e) is returned as the error
UnknownKindError(question_type) ==
    IF KnownKind(question_type) THEN "" ELSE "UnboundLocalError"

\* main/app.py 185-218: the generator of the worker's type
Generate(question_type, chapter_id, learning_objectives, keys, num_questions, dd, bd, den, io_fails) ==
    CASE question_type = "mcq" ->
            generate_mcqs(chapter_id, learning_objectives, keys,
                          num_questions, dd, bd, den, io_fails)
      [] question_type = "fib" ->
            generate_fill_in_blank(chapter_id, learning_objectives, keys,
                                   num_questions, dd, bd, den, io_fails)
      [] question_type = "tf" ->
            generate_true_false(chapter_id, learning_objectives, keys,
                                num_questions, dd, bd, den, io_fails)
      [] OTHER -> NoGenerator

WriteFile(fs, file_name, content) ==
    {f \in fs : f.file_name # file_name}
        \cup {[file_name |-> file_name, content |-> content]}

\* the position of the next future to become done among the futures of
\* the request (1 for the first that completes)
NextCompleted(ws) ==
    Cardinality({j \in 1..Len(ws) : ws[j].st = "done"}) + 1

\* variant: a generator that raised is called once more
WorkerSynthesize_RetryOnce(i) ==
    /\ i \in 1..Len(workers)
    /\ workers[i].st = "submitted"
    /\ \E io_fails \in BOOLEAN, w \in {workers[i]} :
         \E total_for_type \in {TotalForType(w.configs)} :
         \E r \in {Generate(w.question_type, request.chapter_id,
                           request.learning_objectives, lo_in_keys,
                           total_for_type, w.difficulty_distribution,
                           w.blooms_distribution, total_for_type, io_fails)} :
            /\ workers' = [workers EXCEPT ![i] =
                  IF r.raised
                  THEN IF w.calls = 0
                       THEN [@ EXCEPT !.calls = @ + 1]
                       ELSE [@ EXCEPT !.st = "done", !.error = r.error,
                                      !.completed = NextCompleted(workers),
                                      !.calls = @ + 1]
                  ELSE [@ EXCEPT !.st = "synthesized",
                                 !.calls = @ + (IF KnownKind(w.question_type)
                                                THEN 1 ELSE 0)]]
            /\ files' = IF r.raised \/ ~KnownKind(w.question_type)
                        THEN files
                        ELSE WriteFile(files, r.file_name, r.items)
            /\ fetch_calls' = fetch_calls
                  + (IF FetchesOwnContent(w.content_summary) THEN 1 ELSE 0)
    /\ UNCHANGED <<env, pc, fetch_outcome, content_summary, question_dist,
                   type_groups, files_generated, all_question_data, status,
                   error_message, outcome, audit>>

\* main/app.py 171-218, 243-248: the worker thread runs its generator,
\* which writes the items to its file or raises
WorkerSynthesize(i) ==
    /\ i \in 1..Len(workers)
    /\ workers[i].st = "submitted"
    /\ \E io_fails \in BOOLEAN, w \in {workers[i]} :
         \E total_for_type \in {TotalForType(w.configs)} :
         \E r \in {Generate(w.question_type, request.chapter_id,
                           request.learning_objectives, lo_in_keys,
                           total_for_type, w.difficulty_distribution,
                           w.blooms_distribution, total_for_type, io_fails)} :
            /\ workers' = [workers EXCEPT ![i] =
                  IF r.raised
                  THEN [@ EXCEPT !.st = "done", !.error = r.error,
                                 !.completed = NextCompleted(workers),
                                 !.calls = @ + 1]
                  ELSE [@ EXCEPT !.st = "synthesized",
                                 !.calls = @ + (IF KnownKind(w.question_type)
                                                THEN 1 ELSE 0)]]
            /\ files' = IF r.raised \/ ~KnownKind(w.question_type)
                        THEN files
                        ELSE WriteFile(files, r.file_name, r.items)
            /\ fetch_calls' = fetch_calls
                  + (IF FetchesOwnContent(w.content_summary) THEN 1 ELSE 0)
    /\ UNCHANGED <<env, pc, fetch_outcome, content_summary, question_dist,
                   type_groups, files_generated, all_question_data, status,
                   error_message, outcome, audit>>

\* utils_fib.py 312-332 in the worker of the second request: the same
\* generator call writes the same combinations under other uuid4s
SecondRequestItems(items) ==
    [k \in 1..Len(items) |->
        [items[k] EXCEPT !.question_id = @ + Len(items)]]

\* main/app.py 220-248: the worker derives the file name, reads the file
\* and returns (question_type, file_name, question_data, error); the
\* worker of a concurrent request with the same name may have written the
\* file since this worker's generator returned
WorkerReturn(i) ==
    /\ i \in 1..Len(workers)
    /\ workers[i].st = "synthesized"
    /\ \E overwritten \in (IF concurrent THEN BOOLEAN ELSE {FALSE}) :
       LET w == workers[i]
           file_name == WorkerFileName(w.question_type, request.chapter_id,
                            request.learning_objectives, lo_in_keys,
                            w.difficulty_distribution, w.blooms_distribution,
                            TotalForType(w.configs))
           written == {f \in files : f.file_name = file_name}
           on_disk == IF overwritten /\ written # {}
                      THEN WriteFile(files, file_name,
                               SecondRequestItems(
                                   (CHOOSE f \in written : TRUE).content))
                      ELSE files
           found == {f \in on_disk : f.file_name = file_name}
       IN /\ files' = IF KnownKind(w.question_type) THEN on_disk ELSE files
          /\ workers' = [workers EXCEPT ![i] =
               IF ~KnownKind(w.question_type)
               THEN [@ EXCEPT !.st = "done",
                              !.error = UnknownKindError(w.question_type),
                              !.completed = NextCompleted(workers)]
               ELSE IF found = {}
               THEN [@ EXCEPT !.st = "done", !.error = "No such file",
                              !.completed = NextCompleted(workers)]
               ELSE [@ EXCEPT !.st = "done", !.file_name = file_name,
                              !.question_data =
                                  (CHOOSE f \in found : TRUE).content,
                              !.completed = NextCompleted(workers)]]
    /\ UNCHANGED <<env, pc, fetch_calls, fetch_outcome, content_summary,
                   question_dist, type_groups, files_generated,
                   all_question_data, status, error_message, outcome, audit>>

\* variant: the results are taken in the order in which the futures
\* completed
Collect_AsCompleted ==
    /\ pc = "submit"
    /\ Len(workers) = Len(type_groups)
    /\ \A i \in 1..Len(workers) : workers[i].st = "done"
    /\ LET results == [k \in 1..Len(workers) |->
                         workers[CHOOSE i \in 1..Len(workers) :
                                     workers[i].completed = k]]
           r == ProcessResults(results, files_generated, all_question_data)
       IN /\ files_generated' = r.files_generated
          /\ all_question_data' = r.all_question_data
          /\ status' = IF r.raised THEN "error" ELSE "success"
          /\ error_message' = r.error_message
    /\ pc' = "finally"
    /\ UNCHANGED <<env, fetch_calls, fetch_outcome, content_summary,
                   question_dist, type_groups, workers, files, outcome, audit>>

\* variant: the results are processed as soon as every task is submitted
Collect_NoWait ==
    /\ pc = "submit"
    /\ Len(workers) = Len(type_groups)
    /\ LET r == ProcessResults(workers, files_generated, all_question_data)
       IN /\ files_generated' = r.files_generated
          /\ all_question_data' = r.all_question_data
          /\ status' = IF r.raised THEN "error" ELSE "success"
          /\ error_message' = r.error_message
    /\ pc' = "finally"
    /\ UNCHANGED <<env, fetch_calls, fetch_outcome, content_summary,
                   question_dist, type_groups, workers, files, outcome, audit>>

\* main/app.py 381-440: gather returns once every future is done; the
\* results are processed in submission order and a failure is caught
Collect ==
    /\ pc = "submit"
    /\ Len(workers) = Len(type_groups)
    /\ \A i \in 1..Len(workers) : workers[i].st = "done"
    /\ LET r == ProcessResults(workers, files_generated, all_question_data)
       IN /\ files_generated' = r.files_generated
          /\ all_question_data' = r.all_question_data
          /\ status' = IF r.raised THEN "error" ELSE "success"
          /\ error_message' = r.error_message
    /\ pc' = "finally"
    /\ UNCHANGED <<env, fetch_calls, fetch_outcome, content_summary,
                   question_dist, type_groups, workers, files, outcome, audit>>

\* main/app.py 441-470: the finally block stores the history item from the
\* handler's local variables
HistoryItem(status_, files_generated_, all_question_data_, error_message_) ==
    AuditItem("history", "", status_, files_generated_, all_question_data_,
              error_message_)

WriteHistory ==
    /\ pc = "finally"
    /\ audit' = PutItem(audit, HistoryItem(status, files_generated,
                                           all_question_data, error_message))
    /\ IF AuditErrorEscapes(dynamo = "failing")
       THEN pc' = "done" /\ outcome' = InternalError
       ELSE pc' = "respond" /\ outcome' = outcome
    /\ UNCHANGED <<env, fetch_calls, fetch_outcome, content_summary,
                   question_dist, type_groups, workers, files, files_generated,
                   all_question_data, status, error_message>>

\* main/app.py 472-507, 575-615: the RESPONSE event and one
\* QUESTION_GENERATED event per question of each type
ResponseEvents(files_generated_, all_question_data_) ==
    <<AuditItem("events", "RESPONSE", "success", files_generated_, <<>>, <<>>)>>
    \o Flatten([k \in 1..Len(all_question_data_) |->
          [j \in 1..Len(all_question_data_[k].question_data) |->
             AuditItem("events", "QUESTION_GENERATED", "success", <<>>,
                 <<[question_type |-> all_question_data_[k].question_type,
                    question_data |->
                        <<all_question_data_[k].question_data[j]>>]>>,
                 <<>>)]])

\* main/app.py 405-440, 472-507: the response is returned after the
\* events are logged, or the HTTPException reaches the caller
Respond ==
    /\ pc = "respond"
    /\ IF status = "success"
       THEN /\ audit' = IF dynamo = "up"
                        THEN audit \o ResponseEvents(files_generated,
                                                     all_question_data)
                        ELSE audit
            /\ outcome' = IF AuditErrorEscapes(dynamo = "failing")
                           THEN InternalError
                           ELSE [kind |-> "response",
                                 files_generated |-> files_generated,
                                 data |-> all_question_data, detail |-> <<>>]
       ELSE /\ audit' = audit
            /\ outcome' = [kind |-> "error", files_generated |-> <<>>,
                           data |-> <<>>, detail |-> error_message]
    /\ pc' = "done"
    /\ UNCHANGED <<env, fetch_calls, fetch_outcome, content_summary,
                   question_dist, type_groups, workers, files, files_generated,
                   all_question_data, status, error_message>>

Next ==
    \/ FetchSummary
    \/ Allocate
    \/ Submit
    \/ \E i \in 1..Len(workers) : WorkerSynthesize(i)
    \/ \E i \in 1..Len(workers) : WorkerReturn(i)
    \/ Collect
    \/ WriteHistory
    \/ Respond

Spec == Init /\ [][Next]_vars

\* the event loop runs the handler on, and the pool (max_workers=3, at most
\* three types) runs every submitted task, as long as each call returns
Fairness == WF_vars(Next)

\* requests of up to two types with one difficulty and one level
LiveRequests ==
    [total_questions : 0..2,
     question_type_distribution :
        {d \in KindDists : TotalWeight(d) = Den},
     difficulty_distribution : DistsOn(<<"basic">>, {Den}),
     blooms_taxonomy_distribution : DistsOn(<<"remember">>, {Den}),
     chapter_id : {<<"ch01">>},
     learning_objectives : {NoObjectives}]

InitLive ==
    /\ request \in LiveRequests
    /\ weight_den = Den
    /\ dynamo \in {"absent", "up", "failing"}
    /\ lo_in_keys = TRUE
    /\ InitStore
    /\ concurrent = FALSE
    /\ InitLocals

SpecLive == InitLive /\ [][Next]_vars /\ Fairness

(* ------------------ the request of the field defaults ----------------- *)
\* main/app.py 89-97: the defaults of QuestionRequest, weights in tenths
DefaultDen == 10

DefaultRequest ==
    [total_questions |-> 10,
     question_type_distribution |->
        <<[label |-> "mcq", w |-> 4], [label |-> "fib", w |-> 3],
          [label |-> "tf", w |-> 3]>>,
     difficulty_distribution |->
        <<[label |-> "basic", w |-> 3], [label |-> "intermediate", w |-> 3],
          [label |-> "advanced", w |-> 4]>>,
     blooms_taxonomy_distribution |->
        <<[label |-> "remember", w |-> 3], [label |-> "apply", w |-> 4],
          [label |-> "analyze", w |-> 3]>>,
     chapter_id |-> <<"ch01">>,
     learning_objectives |-> NoObjectives]

InitDefault ==
    /\ request = DefaultRequest
    /\ weight_den = DefaultDen
    /\ dynamo \in {"absent", "up", "failing"}
    /\ lo_in_keys = TRUE
    /\ InitStore
    /\ concurrent = FALSE
    /\ InitLocals

SpecDefault == InitDefault /\ [][Next]_vars

(* ------------------ requests with degenerate distributions ------------ *)
\* Dict[str, float] accepts any dict: weights of 0.0 and the empty dict
ZeroDistsOn(labels) ==
    {[i \in 1..Len(labels) |-> [label |-> labels[i], w |-> ws[i]]] :
        ws \in {v \in [1..Len(labels) -> 0..Den] : SumSeq(v) \in {0, Den}}}

EdgeDists(labels) ==
    {<<>>} \cup UNION {ZeroDistsOn(SubSeq(labels, 1, n)) : n \in 1..Len(labels)}

EdgeRequests ==
    [total_questions : 0..2,
     question_type_distribution : EdgeDists(KindLabels),
     difficulty_distribution : EdgeDists(DifficultyLabels),
     blooms_taxonomy_distribution : EdgeDists(BloomsLabels),
     chapter_id : {<<"ch01">>},
     learning_objectives : {NoObjectives}]

InitEdge ==
    /\ request \in EdgeRequests
    /\ weight_den = Den
    /\ dynamo = "up"
    /\ lo_in_keys = TRUE
    /\ InitStore
    /\ concurrent = FALSE
    /\ InitLocals

SpecEdge == InitEdge /\ [][Next]_vars

(* ------------------ requests varying the inputs of the file name ------ *)
ChapterIds == {<<"ch01">>, <<"ch02">>}

Objectives ==
    {NoObjectives,
     [type |-> "str", items |-> <<>>],
     [type |-> "list", items |-> <<>>],
     [type |-> "str", items |-> <<"a">>],
     [type |-> "str", items |-> <<"a", "_", "b">>],
     [type |-> "list", items |-> <<"a", "b">>]}

NameRequests ==
    [total_questions : 1..2,
     question_type_distribution :
        {d \in KindDists : TotalWeight(d) = Den},
     difficulty_distribution : PrefixDists(DifficultyLabels),
     blooms_taxonomy_distribution : PrefixDists(SubSeq(BloomsLabels, 1, 2)),
     chapter_id : ChapterIds,
     learning_objectives : Objectives]

InitName ==
    /\ request \in NameRequests
    /\ weight_den = Den
    /\ dynamo = "up"
    /\ lo_in_keys \in BOOLEAN
    /\ InitChapter
    /\ concurrent = FALSE
    /\ InitLocals

SpecName == InitName /\ [][Next]_vars

(* ------------------ requests exercising the generators' rounding ------ *)
MaxFib == 5        \* total_questions ranges over 1..MaxFib

\* the full DifficultyLevel enum
DifficultyLevel == <<"basic", "intermediate", "advanced">>

FibRequests ==
    [total_questions : 1..MaxFib,
     question_type_distribution :
        {d \in KindDists : TotalWeight(d) = Den},
     difficulty_distribution : PrefixDists(DifficultyLevel),
     blooms_taxonomy_distribution : PrefixDists(BloomsLabels),
     chapter_id : {<<"ch01">>},
     learning_objectives : {NoObjectives}]

InitFib ==
    /\ request \in FibRequests
    /\ weight_den = Den
    /\ dynamo = "up"
    /\ lo_in_keys = TRUE
    /\ InitChapter
    /\ concurrent = FALSE
    /\ InitLocals

SpecFib == InitFib /\ [][Next]_vars

(* ====================== properties ==================================== *)
Allocated == pc \notin {"start", "allocate"}

Failed(w) == w.st = "done" /\ w.error # ""
Succeeded(w) == w.st = "done" /\ w.error = ""

DataKeys(data) == {data[k].question_type : k \in 1..Len(data)}

\* C1: for every total N >= 0 and valid distributions, also ones that do
\* not sum to 1.0, the counts returned by calculate_question_distribution
\* and by calculate_question_counts sum exactly to N.
C1_CountsSumToN ==
    Allocated =>
        /\ SumSeq(Counts(question_dist)) = request.total_questions
        /\ SumSeq(Counts(calculate_question_counts(
                request.total_questions,
                request.question_type_distribution,
                request.difficulty_distribution,
                request.blooms_taxonomy_distribution,
                weight_den))) = request.total_questions

\* C2: when one of two or more workers fails, the request fails and no
\* file name or item of another worker reaches the response, the history
\* item or an event.
C2_NoSiblingOutput ==
    (Len(workers) >= 2 /\ \E i \in 1..Len(workers) : Failed(workers[i])) =>
        /\ outcome.kind # "response"
        /\ outcome.files_generated = <<>> /\ outcome.data = <<>>
        /\ \A k \in 1..Len(audit) :
              audit[k].table \in {"history", "events"} =>
                  /\ audit[k].files_generated = <<>>
                  /\ audit[k].response_data = <<>>

\* C3: in every request the shared summary retrieval is invoked exactly
\* once, by the orchestrator; no worker or generator retrieves on its own.
C3_SummaryFetchedOnce ==
    /\ fetch_calls <= 1
    /\ pc # "start" => fetch_calls = 1

C3_Witness ==
    /\ pc = "done"
    /\ Len(workers) >= 2
    /\ \A i \in 1..Len(workers) : Succeeded(workers[i])
    /\ fetch_calls = 1

\* number of items of a question_data with the given difficulty and level
ItemsWith(question_data, difficulty, blooms_level) ==
    Cardinality({j \in 1..Len(question_data) :
        /\ question_data[j].difficulty = difficulty
        /\ question_data[j].blooms_level = blooms_level})

\* count the allocator gave to (question_type, difficulty, blooms_level)
AllocatedCount(dist, question_type, difficulty, blooms_level) ==
    SumSeq([i \in 1..Len(dist) |->
        IF /\ dist[i].question_type = question_type
           /\ dist[i].difficulty = difficulty
           /\ dist[i].blooms_level = blooms_level
        THEN dist[i].count ELSE 0])

\* the three request distributions sum to 1.0
Normalized ==
    /\ TotalWeight(request.question_type_distribution) = weight_den
    /\ TotalWeight(request.difficulty_distribution) = weight_den
    /\ TotalWeight(request.blooms_taxonomy_distribution) = weight_den

\* C4: re-expanding a kind's difficulty and level sub-distributions with
\* the kind's total, as generate_fill_in_blank does, gives every
\* (difficulty, level) pair exactly the count the allocator assigned
\* (stated for requests whose distributions sum to 1.0).
C4_ReexpansionReproducesCounts ==
    \A i \in 1..Len(workers) :
        (Normalized /\ workers[i].question_type = "fib"
            /\ Succeeded(workers[i])) =>
            \A d \in Range(DifficultyLabels), b \in Range(BloomsLabels) :
                ItemsWith(workers[i].question_data, d, b)
                    = AllocatedCount(question_dist, "fib", d, b)

\* C5: after grouping, the kind-local totals (total_for_type) sum to the
\* requested total N.
C5_KindTotalsSumToN ==
    Allocated =>
        SumSeq([i \in 1..Len(type_groups) |->
                   TotalForType(type_groups[i].configs)])
            = request.total_questions

RequestedKinds ==
    {request.question_type_distribution[i].label :
        i \in 1..Len(request.question_type_distribution)}

\* C6: the outcome is a success response holding every kind named in the
\* request's kind distribution, or no response body and a single failure.
C6_EveryRequestedKindPresent ==
    pc = "done" =>
        \/ /\ outcome.kind = "response"
           /\ RequestedKinds \subseteq DataKeys(outcome.data)
        \/ /\ outcome.kind = "error"
           /\ outcome.data = <<>>

\* C6 as amended: the success response holds exactly the kinds that were
\* allocated at least one item, each with the items its worker returned;
\* otherwise there is no response body and a single failure.
C6_EveryAllocatedKindPresent ==
    /\ pc # "done" => outcome.kind = "none"
    /\ pc = "done" =>
        \/ /\ outcome.kind = "response"
           /\ DataKeys(outcome.data)
                = {question_dist[k].question_type : k \in 1..Len(question_dist)}
           /\ Len(outcome.data) = Len(workers)
           /\ \A i \in 1..Len(workers) :
                 /\ Succeeded(workers[i])
                 /\ outcome.data[i].question_type = workers[i].question_type
                 /\ outcome.data[i].question_data = workers[i].question_data
        \/ /\ outcome.kind = "error"
           /\ outcome.data = <<>> /\ outcome.files_generated = <<>>
           /\ \E i \in 1..Len(workers) : Failed(workers[i])

C6_Witness ==
    /\ pc = "done"
    /\ outcome.kind = "response"
    /\ outcome.data # <<>>
    /\ ~(RequestedKinds \subseteq DataKeys(outcome.data))

\* C7: when the shared summary retrieval fails (raises or finds no
\* content) no worker is spawned, the request ends with one
\* ContextUnavailable error and the history item has status error.
C7_FetchFailureStopsRequest ==
    fetch_outcome \in {"empty", "raised"} =>
        /\ workers = <<>>
        /\ pc = "done" => outcome.kind = "error"
        /\ \A k \in 1..Len(audit) :
              audit[k].table = "history" => audit[k].status = "error"

(* ------------------ C9: sensitivity of the file name ------------------ *)
Fine == 100        \* an altered weight is a multiple of 1/(Fine * total)

Scale(dist, k) ==
    [i \in 1..Len(dist) |-> [label |-> dist[i].label, w |-> dist[i].w * k]]

\* the distributions that differ from dist (over den) in one weight, by
\* 1/(Fine*den) or by 1/den, written over the denominator Fine*den
AlteredWeights(dist) ==
    {[Scale(dist, Fine) EXCEPT ![k].w = @ + delta] :
        k \in 1..Len(dist), delta \in {1, Fine}}

Percents(dist, den) == [i \in 1..Len(dist) |-> (dist[i].w * 100) \div den]

RenderedTag(learning_objectives) ==
    IF Truthy(learning_objectives) /\ lo_in_keys
    THEN ObjectiveTag(learning_objectives) ELSE <<>>

\* C9: changing any single input of the file name (chapter id, one
\* difficulty weight, one level weight, the objective filter, the kind),
\* the other four fixed, gives a different name.
C9_AnyChangeChangesName ==
    \A i \in 1..Len(workers) :
        Succeeded(workers[i]) =>
            LET w == workers[i]
                t == TotalForType(w.configs)
                dd == w.difficulty_distribution
                bd == w.blooms_distribution
                lo == request.learning_objectives
            IN /\ \A ch \in ChapterIds \ {request.chapter_id} :
                     WorkerFileName(w.question_type, ch, lo, lo_in_keys,
                                    dd, bd, t) # w.file_name
               /\ \A kind \in Range(KindLabels) \ {w.question_type} :
                     WorkerFileName(kind, request.chapter_id, lo, lo_in_keys,
                                    dd, bd, t) # w.file_name
               /\ \A lo2 \in Objectives \ {lo} :
                     WorkerFileName(w.question_type, request.chapter_id, lo2,
                                    lo_in_keys, dd, bd, t) # w.file_name
               /\ \A dd2 \in AlteredWeights(dd) :
                     WorkerFileName(w.question_type, request.chapter_id, lo,
                                    lo_in_keys, dd2, Scale(bd, Fine), t * Fine)
                        # w.file_name
               /\ \A bd2 \in AlteredWeights(bd) :
                     WorkerFileName(w.question_type, request.chapter_id, lo,
                                    lo_in_keys, Scale(dd, Fine), bd2, t * Fine)
                        # w.file_name

\* C9 as amended: a changed chapter id or kind always changes the name; a
\* changed weight changes it exactly when int(weight*100) changes; a
\* changed objective filter changes it exactly when the rendered tag
\* changes (no tag for None, "" or [], or when 'learning_objectives' is
\* not a metadata key; otherwise "lo" and the string or the joined list).
C9_RenderedChangeChangesName ==
    \A i \in 1..Len(workers) :
        Succeeded(workers[i]) =>
            LET w == workers[i]
                t == TotalForType(w.configs)
                dd == w.difficulty_distribution
                bd == w.blooms_distribution
                lo == request.learning_objectives
            IN /\ \A ch \in ChapterIds \ {request.chapter_id} :
                     WorkerFileName(w.question_type, ch, lo, lo_in_keys,
                                    dd, bd, t) # w.file_name
               /\ \A kind \in Range(KindLabels) \ {w.question_type} :
                     WorkerFileName(kind, request.chapter_id, lo, lo_in_keys,
                                    dd, bd, t) # w.file_name
               /\ \A lo2 \in Objectives :
                     (WorkerFileName(w.question_type, request.chapter_id, lo2,
                                     lo_in_keys, dd, bd, t) = w.file_name)
                        <=> (RenderedTag(lo2) = RenderedTag(lo))
               /\ \A dd2 \in AlteredWeights(dd) :
                     (WorkerFileName(w.question_type, request.chapter_id, lo,
                                     lo_in_keys, dd2, Scale(bd, Fine), t * Fine)
                        = w.file_name)
                        <=> (Percents(dd2, t * Fine) = Percents(dd, t))
               /\ \A bd2 \in AlteredWeights(bd) :
                     (WorkerFileName(w.question_type, request.chapter_id, lo,
                                     lo_in_keys, Scale(dd, Fine), bd2, t * Fine)
                        = w.file_name)
                        <=> (Percents(bd2, t * Fine) = Percents(bd, t))

\* a worker has returned, and both an altered objective filter and an
\* altered weight exist that leave its file name unchanged
C9_Witness ==
    \E i \in 1..Len(workers) :
        /\ Succeeded(workers[i])
        /\ Truthy(request.learning_objectives) /\ lo_in_keys
        /\ \E lo2 \in Objectives \ {request.learning_objectives} :
              WorkerFileName(workers[i].question_type, request.chapter_id, lo2,
                  lo_in_keys, workers[i].difficulty_distribution,
                  workers[i].blooms_distribution,
                  TotalForType(workers[i].configs)) = workers[i].file_name
        /\ \E dd2 \in AlteredWeights(workers[i].difficulty_distribution) :
              WorkerFileName(workers[i].question_type, request.chapter_id,
                  request.learning_objectives, lo_in_keys, dd2,
                  Scale(workers[i].blooms_distribution, Fine),
                  TotalForType(workers[i].configs) * Fine)
                = workers[i].file_name

(* ------------------ C11: zero counts are dropped ---------------------- *)
\* the allocator has returned and no task is submitted yet
JustAllocated == pc = "submit" /\ workers = <<>>

\* the allocator's table after the remainder is handed out, before the
\* zero counts are removed
FinalCounts ==
    DistributeRemainder(request.total_questions,
        FractionalDistribution(request.total_questions,
            request.question_type_distribution,
            request.difficulty_distribution,
            request.blooms_taxonomy_distribution,
            weight_den, weight_den, weight_den))

\* C11: the allocator's output holds no combination with a count of 0:
\* every returned entry has a count of at least 1, and a combination is
\* returned if and only if its final count is positive.
C11_NoZeroCountReturned ==
    JustAllocated =>
        LET final == FinalCounts
            returned == Range(question_dist)
        IN /\ \A c \in returned : c.count >= 1
           /\ returned = {c \in Range(final) : c.count > 0}
           /\ \A c \in Range(calculate_question_counts(
                           request.total_questions,
                           request.question_type_distribution,
                           request.difficulty_distribution,
                           request.blooms_taxonomy_distribution,
                           weight_den)) : c.count >= 1

\* an allocation that kept some combinations and dropped others
C11_Witness ==
    /\ JustAllocated
    /\ question_dist # <<>>
    /\ Len(question_dist) < Len(request.question_type_distribution)
                              * Len(request.difficulty_distribution)
                              * Len(request.blooms_taxonomy_distribution)

(* ------------------ C13: count of the produced items ------------------ *)
TotalItems(data) ==
    SumSeq([k \in 1..Len(data) |-> Len(data[k].question_data)])

\* C13: when all workers succeed, the number of items across all kinds is
\* checked against the requested total N, so a success response always
\* holds exactly N items (a different number ends in a CountMismatch
\* error); stated for responses made of fill-in-blank items alone.
C13_ItemCountChecked ==
    (pc = "done" /\ outcome.kind = "response"
        /\ DataKeys(outcome.data) \subseteq {"fib"}) =>
        TotalItems(outcome.data) = request.total_questions

(* ------------------ C14: the fill-in-blank generator ------------------ *)
ItemFields == {"question_id", "difficulty", "blooms_level"}

C18_ErrorNamesFailedKind ==
    /\ (pc \in {"finally", "respond", "done"}
          /\ \E i \in 1..Len(workers) : Failed(workers[i]))
        => status = "error"
    /\ status = "error" =>
        /\ \E i \in 1..Len(workers) :
              /\ Failed(workers[i])
              /\ error_message = <<"Error in", workers[i].question_type,
                                   workers[i].error>>
        /\ \A i \in 1..Len(workers) :
              Succeeded(workers[i]) => error_message[2] # workers[i].question_type
        /\ pc = "done" =>
              outcome.kind = "error" /\ outcome.detail = error_message

\* the first worker failed, a later one succeeded, and the caller has the error
C18_Witness ==
    /\ pc = "done"
    /\ Len(workers) >= 2
    /\ Failed(workers[1])
    /\ Succeeded(workers[Len(workers)])

(* ------------------ C19: weights are normalized ----------------------- *)
ScaleFactors == {2, 4}

\* C19: multiplying every weight of one input distribution by the same
\* positive constant leaves the combination-to-count mapping unchanged
\* (stated for requests whose distributions sum to 1.0 before scaling).
C19_ScalingLeavesCountsUnchanged ==
    (JustAllocated /\ Normalized) =>
        \A k \in ScaleFactors :
            /\ calculate_question_distribution(request.total_questions,
                   Scale(request.question_type_distribution, k),
                   request.difficulty_distribution,
                   request.blooms_taxonomy_distribution, weight_den)
                 = question_dist
            /\ calculate_question_distribution(request.total_questions,
                   request.question_type_distribution,
                   Scale(request.difficulty_distribution, k),
                   request.blooms_taxonomy_distribution, weight_den)
                 = question_dist
            /\ calculate_question_distribution(request.total_questions,
                   request.question_type_distribution,
                   request.difficulty_distribution,
                   Scale(request.blooms_taxonomy_distribution, k), weight_den)
                 = question_dist

(* ------------------ C20: range of the remainder ----------------------- *)
\* C20: in every allocator run the remainder N - sum of the floored shares
\* is at least 0 and less than the number of combinations.
C20_RemainderInRange ==
    JustAllocated =>
        LET fd == FractionalDistribution(request.total_questions,
                      request.question_type_distribution,
                      request.difficulty_distribution,
                      request.blooms_taxonomy_distribution,
                      weight_den, weight_den, weight_den)
            remainder == Remainder(request.total_questions, fd)
        IN 0 <= remainder /\ remainder < Len(fd)

(* ------------------ C16: audit failures ------------------------------- *)
\* the outcome as the workers' results alone determine it
OutcomeOf(results) ==
    LET failed == {i \in 1..Len(results) : results[i].error # ""}
        first == CHOOSE i \in failed : \A j \in failed : i <= j
    IN IF failed = {}
       THEN [kind |-> "response",
             files_generated |-> [i \in 1..Len(results) |-> results[i].file_name],
             data |-> [i \in 1..Len(results) |->
                         [question_type |-> results[i].question_type,
                          question_data |-> results[i].question_data]],
             detail |-> <<>>]
       ELSE [kind |-> "error", files_generated |-> <<>>, data |-> <<>>,
             detail |-> <<"Error in", results[first].question_type,
                          results[first].error>>]

\* C16: a failed audit write (conversation log, history item, response and
\* question events) never changes the outcome: whether the puts succeed,
\* raise, or the tables are absent, the caller receives the response or
\* the error that the workers' results determine.
C16_AuditFailureKeepsOutcome ==
    /\ dynamo # "up" => audit = <<>>
    /\ pc = "done" => outcome = OutcomeOf(workers)

\* every put raised, and the caller still has the response with its items
C16_Witness ==
    /\ dynamo = "failing"
    /\ pc = "done"
    /\ audit = <<>>
    /\ outcome.kind = "response"
    /\ outcome.data # <<>>

(* ------------------ C17: one outcome per request ---------------------- *)
\* the caller holds a response with the data of all workers, or an error
\* without item data
OneOutcome ==
    \/ /\ outcome.kind = "response"
       /\ Len(outcome.data) = Len(workers)
       /\ \A i \in 1..Len(workers) :
             /\ workers[i].st = "done" /\ workers[i].error = ""
             /\ outcome.data[i].question_data = workers[i].question_data
    \/ /\ outcome.kind = "error"
       /\ outcome.data = <<>>

\* C17: every request whose calls return or raise eventually ends, and
\* from then on the caller holds exactly one outcome: a success response
\* with the data of all workers, or an error without item data; never a
\* response built from a subset of the workers.
C17_ExactlyOneOutcome ==
    <>[](pc = "done" /\ OneOutcome)

\* a request with two workers has ended with a response
C17_Witness ==
    /\ pc = "done"
    /\ outcome.kind = "response"
    /\ Len(outcome.data) >= 2

(* ------------------ C12: degenerate distributions --------------------- *)
Degenerate(dist) == dist = <<>> \/ TotalWeight(dist) <= 0

DegenerateRequest ==
    \/ Degenerate(request.question_type_distribution)
    \/ Degenerate(request.difficulty_distribution)
    \/ Degenerate(request.blooms_taxonomy_distribution)

\* C12: when one of the three distributions is empty or has a weight sum
\* of at most 0, the allocator fails with InvalidDistribution: it returns
\* no allocation, not even an empty one, so the handler never goes on
\* past the allocation and the request ends with that error.
C12_DegenerateRejected ==
    DegenerateRequest =>
        /\ pc \in {"start", "allocate", "done"}
        /\ pc = "done" =>
              /\ outcome.kind = "error"
              /\ outcome.detail = <<"InvalidDistribution">>

(* ------------------ C15: the default request -------------------------- *)
KindTotals == [i \in 1..Len(type_groups) |-> TotalForType(type_groups[i].configs)]

KindWeight(question_type) ==
    LET qd == request.question_type_distribution
    IN qd[CHOOSE i \in 1..Len(qd) : qd[i].label = question_type].w

\* C15: for the default request (N = 10, kinds mcq 0.4, fib 0.3, tf 0.3,
\* difficulties 0.3, 0.3, 0.4, levels 0.3, 0.4, 0.3) the allocation sums
\* to 10 and is grouped into 3 kinds whose totals sum to 10, each total
\* within 1 of N times the kind's weight; the success response holds
\* exactly 10 items across 3 kinds.
C15_DefaultRequestSplit ==
    /\ Allocated =>
          /\ SumSeq(Counts(question_dist)) = 10
          /\ Len(type_groups) = 3
          /\ SumSeq(KindTotals) = 10
          /\ \A i \in 1..Len(type_groups) :
                AbsInt(weight_den * KindTotals[i]
                       - request.total_questions
                         * KindWeight(type_groups[i].question_type))
                    <= weight_den
    /\ (pc = "done" /\ outcome.kind = "response") =>
          /\ TotalItems(outcome.data) = 10
          /\ Len(outcome.data) = 3
          /\ DataKeys(outcome.data) = {"mcq", "fib", "tf"}

\* the default request has ended with its response
C15_Witness ==
    /\ request = DefaultRequest
    /\ pc = "done"
    /\ outcome.kind = "response"
    /\ TotalItems(outcome.data) = 10

(* ------------------ C21: who receives the remainder ------------------- *)
\* the entries of the table whose count was raised by one
Raised(fd, final) == {i \in 1..Len(fd) : final[i].count = fd[i].count + 1}

\* C21: each combination's final count is the floor of its exact share or
\* that floor plus 1, exactly `remainder` combinations receive the +1, and
\* no combination that receives it has a strictly smaller fractional part
\* than a combination that does not.
C21_TopRemainderRaised ==
    JustAllocated =>
        \A fd \in {FractionalDistribution(request.total_questions,
                       request.question_type_distribution,
                       request.difficulty_distribution,
                       request.blooms_taxonomy_distribution,
                       weight_den, weight_den, weight_den)} :
        \A final \in {DistributeRemainder(request.total_questions, fd)} :
            /\ question_dist = SelectSeq(final, PositiveCount)
            /\ \A i \in 1..Len(fd) :
                  final[i].count \in {fd[i].count, fd[i].count + 1}
            /\ Cardinality(Raised(fd, final))
                  = Remainder(request.total_questions, fd)
            /\ \A i \in Raised(fd, final) :
                  \A j \in (1..Len(fd)) \ Raised(fd, final) :
                      FracPart(fd[i]) >= FracPart(fd[j])

(* ------------------ C22: order of the labels in the input ------------- *)
\* the same label-to-weight mapping with its labels listed in any order
Reorderings(dist) ==
    {[i \in 1..Len(dist) |-> dist[p[i]]] :
        p \in {f \in [1..Len(dist) -> 1..Len(dist)] :
                 \A i, j \in 1..Len(dist) : i # j => f[i] # f[j]}}

\* C22: ties between equal fractional parts are broken by a fixed order
\* over the combination key, so two inputs with the same label-to-weight
\* mappings listed in different orders yield the same
\* combination-to-count mapping (stated for requests whose distributions
\* sum to 1.0).
C22_ListingOrderIrrelevant ==
    (JustAllocated /\ Normalized) =>
        /\ \A qd \in Reorderings(request.question_type_distribution) :
              Range(calculate_question_distribution(
                        request.total_questions, qd,
                        request.difficulty_distribution,
                        request.blooms_taxonomy_distribution, weight_den))
                  = Range(question_dist)
        /\ \A dd \in Reorderings(request.difficulty_distribution) :
              Range(calculate_question_distribution(
                        request.total_questions,
                        request.question_type_distribution, dd,
                        request.blooms_taxonomy_distribution, weight_den))
                  = Range(question_dist)
        /\ \A bd \in Reorderings(request.blooms_taxonomy_distribution) :
              Range(calculate_question_distribution(
                        request.total_questions,
                        request.question_type_distribution,
                        request.difficulty_distribution, bd, weight_den))
                  = Range(question_dist)

(* ------------------ C23: the summary precedes the workers ------------- *)
\* C23: in every request the shared summary call has returned before the
\* first worker is submitted to the pool, and every worker of the request
\* receives that one value.
C23_SummaryBeforeWorkers ==
    workers # <<>> =>
        /\ fetch_outcome # "none"
        /\ fetch_calls >= 1
        /\ content_summary # NoText
        /\ \A i \in 1..Len(workers) :
              workers[i].content_summary = content_summary

\* two workers have run on the summary of the one retrieval
C23_Witness ==
    /\ pc = "done"
    /\ Len(workers) >= 2
    /\ fetch_outcome = "content"
    /\ \A i \in 1..Len(workers) :
          /\ workers[i].st = "done"
          /\ workers[i].content_summary = content_summary

(* ------------------ C24: an invalid distribution stops the request ---- *)
\* C24: when the allocation fails for a request (a distribution that is
\* empty or has a weight sum of at most 0), the failure is surfaced
\* before any other work of the request: no summary retrieval is issued
\* and no worker is spawned for such a request.
C24_InvalidDistributionFirst ==
    DegenerateRequest =>
        /\ fetch_calls = 0
        /\ fetch_outcome = "none"
        /\ workers = <<>>

(* ------------------ C25: order of completion -------------------------- *)
\* what worker i returns when its generator does not raise, from its own
\* arguments alone
OwnResult(i) ==
    Generate(workers[i].question_type, request.chapter_id,
             request.learning_objectives, lo_in_keys,
             TotalForType(workers[i].configs),
             workers[i].difficulty_distribution,
             workers[i].blooms_distribution,
             TotalForType(workers[i].configs), FALSE)

\* C25: the orchestrator waits for every spawned worker before it looks at
\* a result, and the outcome (success or failure, the error reported, the
\* order of files_generated and the content of the data) is the same for
\* every order in which the workers complete: it is determined by the
\* workers in submission order, each result by its own worker alone.
C25_CompletionOrderIrrelevant ==
    /\ pc = "submit" =>
          /\ files_generated = <<>>
          /\ all_question_data = <<>>
          /\ error_message = <<>>
    /\ pc \in {"finally", "respond", "done"} =>
          /\ Len(workers) = Len(type_groups)
          /\ \A i \in 1..Len(workers) :
                /\ workers[i].st = "done"
                /\ workers[i].question_type = type_groups[i].question_type
    /\ pc = "done" =>
          /\ outcome.kind = "response" =>
                /\ Len(outcome.data) = Len(workers)
                /\ \A i \in 1..Len(workers) :
                      \A r \in {OwnResult(i)} :
                          /\ outcome.files_generated[i] = r.file_name
                          /\ outcome.data[i].question_type
                                = type_groups[i].question_type
                          /\ outcome.data[i].question_data = r.items
          /\ outcome.kind = "error" =>
                \E i \in 1..Len(workers) :
                    /\ Failed(workers[i])
                    /\ \A j \in 1..(i - 1) : Succeeded(workers[j])
                    /\ outcome.detail = <<"Error in", workers[i].question_type,
                                          workers[i].error>>

\* the worker submitted second completed first, and the response holds
\* the data in submission order
C25_Witness ==
    /\ pc = "done"
    /\ outcome.kind = "response"
    /\ Len(workers) = 2
    /\ workers[1].completed = 2
    /\ workers[2].completed = 1
    /\ outcome.data[1].question_type = workers[1].question_type
    /\ outcome.data[1].question_data # <<>>
    /\ outcome.data[2].question_data # <<>>

(* ------------------ C26: one worker per kind, one call per worker ----- *)
\* the total the allocation gives to a kind
AllocatedTotal(question_type) ==
    SumSeq([k \in 1..Len(question_dist) |->
              IF question_dist[k].question_type = question_type
              THEN question_dist[k].count ELSE 0])

WorkersOf(question_type) ==
    {i \in 1..Len(workers) : workers[i].question_type = question_type}

\* C26: exactly one worker is submitted for each kind with a positive
\* allocated total and none for any other kind, and each worker calls its
\* generator at most once: a failed generation is never retried.
C26_OneWorkerOneCall ==
    /\ \A i \in 1..Len(workers) :
          /\ AllocatedTotal(workers[i].question_type) > 0
          /\ WorkersOf(workers[i].question_type) = {i}
          /\ workers[i].calls <= 1
          /\ workers[i].st # "submitted" => workers[i].calls = 1
    /\ pc \in {"finally", "respond", "done"} =>
          \A k \in Range(KindLabels) :
              Cardinality(WorkersOf(k))
                  = (IF AllocatedTotal(k) > 0 THEN 1 ELSE 0)

\* a request of two kinds, one of them without any question, has ended
\* after the generator of the other raised on its only call
C26_Witness ==
    /\ pc = "done"
    /\ Len(workers) = 1
    /\ \E i \in 1..Len(workers) :
          /\ Failed(workers[i])
          /\ workers[i].calls = 1
    /\ \E k \in Range(KindLabels) :
          AllocatedTotal(k) = 0 /\ k \in RequestedKinds

(* ------------------ the bounded summary -------------------------------- *)
\* lengths within Near of zero and of each cap
Near == 2

ChapterLengths ==
    (0..Near) \cup ((SummaryCap - 1)..(SummaryCap + Near))
              \cup ((DefaultMaxChars - 1)..(DefaultMaxChars + Near))

Caps == {0, 1, Near, SummaryCap - 1, SummaryCap, DefaultMaxChars}

\* one question of one kind, difficulty and level
SummaryRequest ==
    [total_questions |-> 1,
     question_type_distribution |-> <<[label |-> "mcq", w |-> Den]>>,
     difficulty_distribution |-> <<[label |-> "basic", w |-> Den]>>,
     blooms_taxonomy_distribution |-> <<[label |-> "remember", w |-> Den]>>,
     chapter_id |-> <<"ch01">>,
     learning_objectives |-> NoObjectives]

InitSummary ==
    /\ request = SummaryRequest
    /\ weight_den = Den
    /\ dynamo = "up"
    /\ lo_in_keys = TRUE
    /\ search_result \in {Search("raised", 0), Search("none", 0)}
                         \cup {Search("text", n) : n \in ChapterLengths}
    /\ max_chars \in Caps
    /\ concurrent = FALSE
    /\ InitLocals

SpecSummary == InitSummary /\ [][Next]_vars

RECURSIVE CharsFrom(_, _)
\* the number of characters of a text that come from src
CharsFrom(text, src) ==
    IF text = <<>> THEN 0
    ELSE (IF Head(text).src = src THEN Head(text).hi - Head(text).lo + 1
          ELSE 0) + CharsFrom(Tail(text), src)

\* the text ends with the whole marker
EndsWith(text, marker) == text # <<>> /\ text[Len(text)] = marker[1]

\* the text without the marker it ends with
Unmarked(text, marker) ==
    IF EndsWith(text, marker) THEN SubSeq(text, 1, Len(text) - 1) ELSE text

\* body is the first characters of text, and no more than cap of them
CutOf(body, text, cap) ==
    /\ TextLen(body) <= cap
    /\ body = Prefix(text, TextLen(body))

\* C27: retrieve_chapter_chunks returns the first characters of the chapter,
\* at most max_chars of them, followed by its marker exactly when the chapter
\* is longer than max_chars (and the whole chapter otherwise); the summary
\* is the first characters of that text, at most 2000 of them, followed by
\* its marker exactly when that text is longer than 2000 characters, which
\* under the default cap is when the chapter is
C27_TextBounded ==
    search_result.kind = "text" =>
        \A chapter \in {execute_search(search_result)} :
        \A retrieved \in {retrieve_chapter_chunks(search_result, max_chars)} :
            /\ CutOf(Unmarked(retrieved, ContentMarker), chapter, max_chars)
            /\ CharsFrom(retrieved, "chapter") <= max_chars
            /\ EndsWith(retrieved, ContentMarker)
                   <=> TextLen(chapter) > max_chars
            /\ ~EndsWith(retrieved, ContentMarker) => retrieved = chapter
            /\ fetch_outcome = "content" =>
                  /\ CutOf(Unmarked(content_summary, SummaryMarker),
                           retrieved, SummaryCap)
                  /\ CharsFrom(content_summary, "chapter") <= SummaryCap
                  /\ EndsWith(content_summary, SummaryMarker)
                         <=> TextLen(retrieved) > SummaryCap
                  /\ max_chars = DefaultMaxChars =>
                         (EndsWith(content_summary, SummaryMarker)
                             <=> TextLen(chapter) > SummaryCap)
                  /\ ~EndsWith(content_summary, SummaryMarker)
                         => content_summary = retrieved

\* a chapter longer than both caps: retrieval cut and marked it, and the
\* summary the workers were handed is its first 2000 characters and the
\* summary marker
C27_Witness ==
    /\ pc = "done"
    /\ max_chars = DefaultMaxChars
    /\ search_result = Search("text", DefaultMaxChars + 1)
    /\ retrieve_chapter_chunks(search_result, max_chars)
          = Literal("chapter", DefaultMaxChars) \o ContentMarker
    /\ content_summary = Literal("chapter", SummaryCap) \o SummaryMarker
    /\ \E i \in 1..Len(workers) : workers[i].content_summary = content_summary

(* ------------------ the worker and its generator agree on the name ----- *)
\* the name the worker of future i derives at main/app.py 220-234
OpenedName(i) ==
    WorkerFileName(workers[i].question_type, request.chapter_id,
                   request.learning_objectives, lo_in_keys,
                   workers[i].difficulty_distribution,
                   workers[i].blooms_distribution,
                   TotalForType(workers[i].configs))

\* the name generate_fill_in_blank derives from the arguments worker i
\* hands it
WrittenName(i) ==
    FibFileName(request.chapter_id, request.learning_objectives, lo_in_keys,
                workers[i].difficulty_distribution,
                workers[i].blooms_distribution,
                TotalForType(workers[i].configs))

\* C28: for every chapter id, pair of sub-distributions, learning
\* objectives and metadata keys, the name the fill-in-blank worker opens is
\* the name generate_fill_in_blank wrote: once the generator has returned
\* the file of that name exists, and the worker never ends with a missing
\* file.
C28_WorkerOpensWrittenFile ==
    \A i \in 1..Len(workers) :
        workers[i].question_type = "fib" =>
            /\ OpenedName(i) = WrittenName(i)
            /\ workers[i].st = "synthesized" =>
                  \E f \in files : f.file_name = OpenedName(i)
            /\ workers[i].st = "done" =>
                  /\ workers[i].error # "No such file"
                  /\ Succeeded(workers[i]) =>
                        /\ workers[i].file_name = WrittenName(i)
                        /\ \E f \in files :
                              /\ f.file_name = workers[i].file_name
                              /\ f.content = workers[i].question_data

\* a fill-in-blank worker returned the items of a file whose name carries
\* no objectives tag although the request has objectives (the metadata keys
\* lack 'learning_objectives')
C28_Witness ==
    /\ pc = "done"
    /\ Truthy(request.learning_objectives)
    /\ ~lo_in_keys
    /\ \E i \in 1..Len(workers) :
          /\ workers[i].question_type = "fib"
          /\ Succeeded(workers[i])
          /\ workers[i].question_data # <<>>
          /\ workers[i].file_name = WrittenName(i)

(* ------------------ two requests at the same time --------------------- *)
InitTwo ==
    /\ request \in LiveRequests
    /\ weight_den = Den
    /\ dynamo = "up"
    /\ lo_in_keys = TRUE
    /\ InitChapter
    /\ concurrent = TRUE
    /\ InitLocals

SpecTwo == InitTwo /\ [][Next]_vars

\* C29: the item list a worker returns is the one its own synthesis call
\* wrote, never a file written by another worker, of the same request or
\* of a second request that runs concurrently with the same chapter id and
\* distributions.
C29_OwnOutputOnly ==
    \A i \in 1..Len(workers) :
        Succeeded(workers[i]) =>
            workers[i].question_data = OwnResult(i).items

(* ------------------ a kind the worker has no branch for --------------- *)
\* question_type_distribution is Dict[str, float]: any label is accepted
OtherKindRequests ==
    [total_questions : 0..2,
     question_type_distribution :
        DistsOn(<<"essay">>, {Den}) \cup DistsOn(<<"mcq", "essay">>, {Den})
            \cup DistsOn(<<"essay", "fib">>, {Den}),
     difficulty_distribution : DistsOn(<<"basic">>, {Den}),
     blooms_taxonomy_distribution : DistsOn(<<"remember">>, {Den}),
     chapter_id : {<<"ch01">>},
     learning_objectives : {NoObjectives}]

InitOther ==
    /\ request \in OtherKindRequests
    /\ weight_den = Den
    /\ dynamo \in {"absent", "up", "failing"}
    /\ lo_in_keys = TRUE
    /\ InitChapter
    /\ concurrent = FALSE
    /\ InitLocals

SpecOther == InitOther /\ [][Next]_vars

\* the allocation holds a positive count for a type without a branch
UnknownAllocated ==
    \E k \in 1..Len(question_dist) :
        /\ ~KnownKind(question_dist[k].question_type)
        /\ question_dist[k].count > 0

\* C30: when a label other than mcq, fib or tf receives a positive
\* allocation, a worker is spawned for it, that worker returns a failure,
\* and the request ends with an error: no success response is sent, with
\* or without the kind.
C30_UnknownKindFailsRequest ==
    UnknownAllocated =>
        /\ \A i \in 1..Len(workers) :
              (~KnownKind(workers[i].question_type)
                 /\ workers[i].st = "done") => Failed(workers[i])
        /\ pc \in {"finally", "respond", "done"} =>
              /\ \E i \in 1..Len(workers) :
                    ~KnownKind(workers[i].question_type)
              /\ status = "error"
        /\ pc = "done" =>
              /\ outcome.kind = "error"
              /\ outcome.data = <<>> /\ outcome.files_generated = <<>>

\* the mcq worker succeeded, the essay worker failed on the unassigned
\* file name, and the caller received the error that names essay
C30_Witness ==
    /\ pc = "done"
    /\ Len(workers) = 2
    /\ workers[1].question_type = "mcq" /\ Succeeded(workers[1])
    /\ workers[2].question_type = "essay"
    /\ workers[2].error = "UnboundLocalError"
    /\ outcome.kind = "error"
    /\ outcome.detail = <<"Error in", "essay", "UnboundLocalError">>


====
